---------------------------- MODULE Spec2Model ----------------------------
(***************************************************************************)
(* A model of tutorials/algorithms/04_vqe_advanced.ipynb: the notebook's   *)
(* code cells run top to bottom in one Python kernel.  Every statement of  *)
(* a cell is one step; a call of VQE.compute_minimum_eigenvalue is a call  *)
(* step, the cost function evaluations its record counts, and a return     *)
(* step (or the exception it raises).  The library behind the calls is     *)
(* modelled as far as the notebook states it: the rules its markdown cells *)
(* give (initial point, expectation, Pauli grouping) and the result        *)
(* records its output cells recorded.                                      *)
(***************************************************************************)
EXTENDS Integers, Sequences, FiniteSets, TLC

VARIABLES
    prog,       \* the statements being run (the notebook, or one VQE call)
    pc,         \* index in prog of the next statement
    status,     \* "running", "error" (an exception ended the run), "done"
    env,        \* the kernel's namespace: name -> value
    imported,   \* the names bound by import statements
    rseed,      \* algorithm_globals.random_seed
    heap,       \* the result records returned so far, in order of return
    call,       \* the solver invocation in progress, or None
    calls,      \* history: one entry per solver invocation that was started
    out         \* what was printed, in order

vars == <<prog, pc, status, env, imported, rseed, heap, call, calls, out>>

---------------------------------------------------------------------------
(* Bounds *)

\* optimizer_time is wall-clock time: any of 1..MaxTime ticks
MaxTime == 2
\* VQE-call specification: number of ansatz parameters, 1..MaxParams
MaxParams == 2
\* VQE-call specification: length of a supplied initial point, 0..MaxLen
MaxLen == 3
\* VQE-call specification: cost evaluations of a run the notebook has no
\* record of, 1..MaxEvals
MaxEvals == 2
\* Operator specification: number of Pauli terms of an operator, 1..MaxTerms
MaxTerms == 3

---------------------------------------------------------------------------
(* Values *)

None == [t |-> "None"]
Unbound == [t |-> "unbound"]
IntV(n) == [t |-> "int", n |-> n]
Ref(id) == [t |-> "ref", id |-> id]
Arr(s) == [t |-> "array", v |-> s]

\* A Python float with 17 decimals: -1^neg * (hi * 10^-8 + lo * 10^-17)
Fx(neg, hi, lo) == [t |-> "float", neg |-> neg, hi |-> hi, lo |-> lo]

\* H2_op: the five Pauli terms of the notebook's operator, each a coefficient
\* and a tensor product (^) of single-qubit Paulis
H2_op ==
    [t |-> "PauliSumOp",
     terms |-> << [coeff |-> Fx(TRUE, 105237324, 577285900), pauli |-> << "I", "I" >>],
                  [coeff |-> Fx(FALSE, 39793742, 484318045), pauli |-> << "I", "Z" >>],
                  [coeff |-> Fx(TRUE, 39793742, 484318045), pauli |-> << "Z", "I" >>],
                  [coeff |-> Fx(TRUE, 1128010, 425623538), pauli |-> << "Z", "Z" >>],
                  [coeff |-> Fx(FALSE, 18093119, 978423156), pauli |-> << "X", "X" >>] >>]

\* QuantumInstance(backend, seed_transpiler=, seed_simulator=, shots=)
QuantumInstance(backend, method, seed_transpiler, seed_simulator, shots) ==
    [t |-> "QuantumInstance", backend |-> backend, method |-> method,
     seed_transpiler |-> seed_transpiler, seed_simulator |-> seed_simulator,
     shots |-> shots]

\* TwoLocal(rotation_blocks='ry', entanglement_blocks='cz'): no preferred
\* initial point, its own parameter bounds
TwoLocal(rotation_blocks, entanglement_blocks) ==
    [t |-> "TwoLocal", rotation_blocks |-> rotation_blocks,
     entanglement_blocks |-> entanglement_blocks,
     preferred_init_points |-> None, parameter_bounds |-> "TwoLocal"]

\* The number of parameters of the notebook's ansatz on the two-qubit operator
NumParameters == 8

num_parameters(ansatz) ==
    IF ansatz.t = "TwoLocal" THEN NumParameters ELSE ansatz.num_parameters

SLSQP(maxiter) == [t |-> "optimizer", kind |-> "SLSQP", maxiter |-> maxiter]
SPSA(maxiter) == [t |-> "optimizer", kind |-> "SPSA", maxiter |-> maxiter]

AerPauliExpectation == [t |-> "AerPauliExpectation", group_paulis |-> FALSE]
PauliExpectation(group_paulis) ==
    [t |-> "PauliExpectation", group_paulis |-> group_paulis]
MatrixExpectation == [t |-> "MatrixExpectation", group_paulis |-> FALSE]

\* include_custom when the keyword is not given
default_include_custom == FALSE

\* VQE(ansatz, optimizer=, initial_point=, quantum_instance=,
\*     include_custom=, expectation=)
VQE(ansatz, optimizer, initial_point, quantum_instance, include_custom, expectation) ==
    [t |-> "VQE", ansatz |-> ansatz, optimizer |-> optimizer,
     initial_point |-> initial_point, quantum_instance |-> quantum_instance,
     include_custom |-> include_custom, expectation |-> expectation]

---------------------------------------------------------------------------
(* The library rules the notebook states *)

\* Faulty variant: the factory ignores include_custom
ExpectationFactory_IgnoresCustom(backend, include_custom) ==
    IF backend = "statevector_simulator" THEN MatrixExpectation
    ELSE PauliExpectation(TRUE)

\* ExpectationFactory: the expectation VQE creates for itself from the backend.
\* On the Aer simulator include_custom selects AerPauliExpectation (snapshot,
\* no shot noise), otherwise the regular PauliExpectation, which groups
\* Paulis; the statevector simulator evaluates the operator in matrix form.
ExpectationFactory(backend, include_custom) ==
    IF backend = "statevector_simulator" THEN MatrixExpectation
    ELSE IF include_custom THEN AerPauliExpectation
    ELSE PauliExpectation(TRUE)

\* Whether VQE asks the ExpectationFactory: only when no expectation is given
uses_factory(vqe) == vqe.expectation = None

\* Faulty variant: VQE asks the factory even when an expectation object was passed
expectation_of_AlwaysFactory(vqe) ==
    ExpectationFactory(vqe.quantum_instance.backend, vqe.include_custom)

\* The expectation object a VQE evaluates the energy with
expectation_of(vqe) ==
    IF uses_factory(vqe)
    THEN ExpectationFactory(vqe.quantum_instance.backend, vqe.include_custom)
    ELSE vqe.expectation

\* Faulty variant: the ansatz's preferred point wins over a supplied initial_point
choose_initial_point_PreferredFirst(vqe, seedv) ==
    IF vqe.ansatz.preferred_init_points # None
    THEN [src |-> "preferred", point |-> vqe.ansatz.preferred_init_points,
          within |-> "-", seed |-> None]
    ELSE IF vqe.initial_point # None
    THEN [src |-> "initial_point", point |-> vqe.initial_point,
          within |-> "-", seed |-> None]
    ELSE [src |-> "random", point |-> None,
          within |-> vqe.ansatz.parameter_bounds, seed |-> seedv]

\* The point the optimization begins at: a supplied initial_point takes
\* priority; else the ansatz's preferred point if it has one; else a random
\* point (drawn under the global seed) within the ansatz's parameter bounds.
choose_initial_point(vqe, seedv) ==
    IF vqe.initial_point # None
    THEN [src |-> "initial_point", point |-> vqe.initial_point,
          within |-> "-", seed |-> None]
    ELSE IF vqe.ansatz.preferred_init_points # None
    THEN [src |-> "preferred", point |-> vqe.ansatz.preferred_init_points,
          within |-> "-", seed |-> None]
    ELSE [src |-> "random", point |-> None,
          within |-> vqe.ansatz.parameter_bounds, seed |-> seedv]

\* Faulty variant: the length of a supplied initial point is not checked
initial_point_matches_Unchecked(vqe) == TRUE

\* A supplied initial point must match the ansatz's number of parameters
initial_point_matches(vqe) ==
    IF vqe.initial_point = None THEN TRUE
    ELSE Len(vqe.initial_point.v) = num_parameters(vqe.ansatz)

\* Two tensor products of Paulis commute: the positions where both are not I
\* and differ are even in number
commute(p, q) ==
    Cardinality({ k \in 1..Len(p) : p[k] # "I" /\ q[k] # "I" /\ p[k] # q[k] }) % 2 = 0

\* Faulty variant: every Pauli is put into the first set
place_AlwaysFirst(sets, p) ==
    IF sets = << >> THEN << << p >> >>
    ELSE [sets EXCEPT ![1] = Append(@, p)]

\* A Pauli joins the first set all of whose members it commutes with, and
\* begins a new set if there is none
place(sets, p) ==
    LET fits == { g \in 1..Len(sets) :
                    \A k \in 1..Len(sets[g]) : commute(sets[g][k], p) }
    IN  IF fits = {} THEN Append(sets, << p >>)
        ELSE LET g == CHOOSE x \in fits : \A y \in fits : x <= y
             IN  [sets EXCEPT ![g] = Append(@, p)]

RECURSIVE commuting_sets(_)
\* PauliExpectation(group_paulis=True): the Paulis of the terms grouped into
\* commuting sets
commuting_sets(terms) ==
    IF terms = << >> THEN << >>
    ELSE CHOOSE sets \in { place(before, terms[Len(terms)].pauli) :
                             before \in { commuting_sets(SubSeq(terms, 1, Len(terms) - 1)) } } :
            TRUE

\* The sets of Paulis a PauliExpectation measures together, one circuit for
\* each set: the commuting sets, or with grouping turned off each Pauli alone.
\* The other expectations run no circuit per Pauli (snapshot, matrix form).
measured_sets(expectation, operator) ==
    IF expectation.t # "PauliExpectation" THEN << >>
    ELSE IF expectation.group_paulis THEN commuting_sets(operator.terms)
    ELSE [k \in 1..Len(operator.terms) |-> << operator.terms[k].pauli >>]

---------------------------------------------------------------------------
(* The result records the notebook's output cells recorded *)

\* Faulty variant: optimizer_evals leaves out one evaluation
VQEResult_Miscounted(cost_function_evals, eigenvalue, optimal_point, optimal_value, optimizer_evals) ==
    [t |-> "VQEResult", recorded |-> TRUE,
     cost_function_evals |-> IntV(cost_function_evals),
     eigenvalue |-> eigenvalue, optimal_point |-> Arr(optimal_point),
     optimal_value |-> optimal_value,
     optimizer_evals |-> IntV(optimizer_evals - 1)]

VQEResult(cost_function_evals, eigenvalue, optimal_point, optimal_value, optimizer_evals) ==
    [t |-> "VQEResult", recorded |-> TRUE,
     cost_function_evals |-> IntV(cost_function_evals),
     eigenvalue |-> eigenvalue, optimal_point |-> Arr(optimal_point),
     optimal_value |-> optimal_value,
     optimizer_evals |-> IntV(optimizer_evals)]

\* What a run returns whose configuration the notebook never ran
UnrecordedResult ==
    [t |-> "VQEResult", recorded |-> FALSE,
     cost_function_evals |-> None, eigenvalue |-> None,
     optimal_point |-> None, optimal_value |-> None,
     optimizer_evals |-> None]

PointSV == << 429652027, 442696203, 54707542, 609294770,
              -259832570, 156832594, -471761824, 36020725 >>
PointAer == << 429652030, 442696216, 54707530, 609294771,
               -259832587, 156832581, -471761826, 36020716 >>
PointNoisy == << 361186007, 419301252, 60198520, 594953681,
                 -330704704, 184629318, -546604360, 69840880 >>
PointSPSA == << 367671553, 332580657, -23941337, 664028213,
                -234821777, 301183471, -470752931, 22755581 >>
PointUngrouped == << 368339585, 338271042, -26516965, 669978996,
                     -228255964, 298872355, -476651492, 18495131 >>

ResultSV ==
    VQEResult(65, Fx(TRUE, 185727501, 757802330), PointSV,
              Fx(TRUE, 185727501, 757802330), 65)
ResultWarm ==
    VQEResult(9, Fx(TRUE, 185727501, 757802330), PointSV,
              Fx(TRUE, 185727501, 757802330), 9)
ResultAer ==
    VQEResult(65, Fx(TRUE, 185727501, 758076820), PointAer,
              Fx(TRUE, 185727501, 758076820), 65)
ResultNoisy ==
    VQEResult(9, Fx(TRUE, 107419217, 956989320), PointNoisy,
              Fx(TRUE, 107419217, 956989320), 9)
ResultSPSA ==
    VQEResult(200, Fx(TRUE, 186185211, 322624530), PointSPSA,
              Fx(TRUE, 186185211, 322624530), 200)
ResultUngrouped ==
    VQEResult(200, Fx(TRUE, 186498303, 81145830), PointUngrouped,
              Fx(TRUE, 186498303, 81145830), 200)

SeededQI(backend) ==
    QuantumInstance(backend, "default", IntV(50), IntV(50), None)

RandomStart ==
    [src |-> "random", point |-> None, within |-> "TwoLocal", seed |-> IntV(50)]

Config(optimizer, qi, expectation, start) ==
    [operator |-> H2_op, ansatz |-> TwoLocal("ry", "cz"),
     optimizer |-> optimizer, quantum_instance |-> qi,
     expectation |-> expectation, start |-> start]

\* The configurations the notebook ran, each with the record it printed
Recorded ==
    << [config |-> Config(SLSQP(1000), SeededQI("statevector_simulator"),
                          MatrixExpectation, RandomStart),
        result |-> ResultSV],
       [config |-> Config(SLSQP(1000), SeededQI("statevector_simulator"),
                          MatrixExpectation,
                          [src |-> "initial_point", point |-> Arr(PointSV),
                           within |-> "-", seed |-> None]),
        result |-> ResultWarm],
       [config |-> Config(SLSQP(1000), SeededQI("aer_simulator"),
                          AerPauliExpectation, RandomStart),
        result |-> ResultAer],
       [config |-> Config(SLSQP(1000), SeededQI("aer_simulator"),
                          PauliExpectation(TRUE), RandomStart),
        result |-> ResultNoisy],
       [config |-> Config(SPSA(100), SeededQI("aer_simulator"),
                          PauliExpectation(TRUE), RandomStart),
        result |-> ResultSPSA],
       [config |-> Config(SPSA(100), SeededQI("aer_simulator"),
                          PauliExpectation(FALSE), RandomStart),
        result |-> ResultUngrouped] >>

\* The record a run of this configuration returns (optimizer_time apart)
outcome(config) ==
    IF \E i \in 1..Len(Recorded) : Recorded[i].config = config
    THEN Recorded[CHOOSE i \in 1..Len(Recorded) : Recorded[i].config = config].result
    ELSE UnrecordedResult

---------------------------------------------------------------------------
(* The notebook's code cells, statement by statement *)

\* One statement: its line in the .ipynb file, its kind, its operands
S(line, op, p) == [line |-> line, op |-> op, p |-> p]

NoArgs == [none |-> TRUE]

StSetSeed(line) == S(line, "set_seed", [src |-> "seed"])

StNewQI(line, backend) ==
    S(line, "new_qi", [tgt |-> "qi", backend |-> backend, method |-> "default",
                       seeded |-> TRUE, shots |-> None])

StNewAnsatz(line) ==
    S(line, "new_ansatz", [tgt |-> "ansatz", rotation_blocks |-> "ry",
                           entanglement_blocks |-> "cz"])

StNewOptimizer(line, optimizer) ==
    S(line, "new_optimizer", [tgt |-> "slsqp", optimizer |-> optimizer])

StNewVQE(line, quantum_instance, initial_point, include_custom, expectation) ==
    S(line, "new_vqe", [tgt |-> "vqe", ansatz |-> "ansatz", optimizer |-> "slsqp",
                        quantum_instance |-> quantum_instance,
                        initial_point |-> initial_point,
                        include_custom |-> include_custom,
                        expectation |-> expectation])

StInvoke(line, tgt) ==
    S(line, "invoke", [tgt |-> tgt, vqe |-> "vqe", operator |-> "H2_op"])

StPrintResult(line, src) == S(line, "print_result", [src |-> src])

StGetAttr(line, tgt, src, field) ==
    S(line, "getattr", [tgt |-> tgt, src |-> src, field |-> field])

CellImports ==
    << S(20, "import", [names |-> {"Aer"}]),
       S(21, "import", [names |-> {"X", "Z", "I"}]),
       S(22, "import", [names |-> {"QuantumInstance", "algorithm_globals"}]),
       S(23, "import", [names |-> {"VQE"}]),
       S(24, "import", [names |-> {"SLSQP"}]),
       S(25, "import", [names |-> {"TwoLocal"}]) >>

CellOperator ==
    << S(41, "operator", [tgt |-> "H2_op"]) >>

CellFirstRun ==
    << S(92, "assign", [tgt |-> "seed", val |-> IntV(50)]),
       StSetSeed(93),
       StNewQI(94, "statevector_simulator"),
       StNewAnsatz(96),
       StNewOptimizer(97, SLSQP(1000)),
       StNewVQE(98, "qi", "", "omitted", None),
       StInvoke(99, "result"),
       StPrintResult(100, "result"),
       StGetAttr(101, "optimizer_evals", "result", "optimizer_evals") >>

\* Faulty variant: the second run is not given the initial point
CellWarmStart_NoInitialPoint ==
    << StGetAttr(144, "initial_pt", "result", "optimal_point"),
       StSetSeed(146),
       StNewQI(147, "statevector_simulator"),
       StNewAnsatz(149),
       StNewOptimizer(150, SLSQP(1000)),
       StNewVQE(151, "qi", "", "omitted", None),
       StInvoke(152, "result1"),
       StPrintResult(153, "result1"),
       StGetAttr(154, "optimizer_evals1", "result1", "optimizer_evals"),
       S(155, "print_blank", NoArgs),
       S(156, "print_f", [parts |-> << [name |-> "optimizer_evals1", fmt |-> "d"],
                                       [name |-> "optimizer_evals", fmt |-> "d"] >>]) >>

CellWarmStart ==
    << StGetAttr(144, "initial_pt", "result", "optimal_point"),
       StSetSeed(146),
       StNewQI(147, "statevector_simulator"),
       StNewAnsatz(149),
       StNewOptimizer(150, SLSQP(1000)),
       StNewVQE(151, "qi", "initial_pt", "omitted", None),
       StInvoke(152, "result1"),
       StPrintResult(153, "result1"),
       StGetAttr(154, "optimizer_evals1", "result1", "optimizer_evals"),
       S(155, "print_blank", NoArgs),
       S(156, "print_f", [parts |-> << [name |-> "optimizer_evals1", fmt |-> "d"],
                                       [name |-> "optimizer_evals", fmt |-> "d"] >>]) >>

CellIncludeCustom ==
    << S(211, "import", [names |-> {"Aer"}]),
       StSetSeed(213),
       StNewQI(214, "aer_simulator"),
       StNewAnsatz(216),
       StNewOptimizer(217, SLSQP(1000)),
       StNewVQE(218, "qi", "", "True", None),
       StInvoke(219, "result"),
       StGetAttr(220, "optimal_value1", "result", "optimal_value"),
       StPrintResult(221, "result") >>

CellDefaultExpectation ==
    << StSetSeed(266),
       StNewQI(267, "aer_simulator"),
       StNewAnsatz(269),
       StNewOptimizer(270, SLSQP(1000)),
       StNewVQE(271, "qi", "", "omitted", None),
       StInvoke(272, "result"),
       StGetAttr(273, "optimal_value", "result", "optimal_value"),
       S(274, "print_f", [parts |-> << [name |-> "optimal_value", fmt |-> ".3f"],
                                       [name |-> "optimal_value1", fmt |-> ".3f"] >>]),
       S(276, "print_blank", NoArgs),
       StPrintResult(277, "result") >>

\* Faulty variant: the cell rebinds H2_op to an operator without its last term
CellSPSA_RebindsOperator ==
    << S(317, "import", [names |-> {"SPSA"}]),
       S(318, "assign", [tgt |-> "H2_op",
                         val |-> [H2_op EXCEPT !.terms = SubSeq(@, 1, 4)]]),
       StSetSeed(319),
       StNewQI(320, "aer_simulator"),
       StNewAnsatz(322),
       StNewOptimizer(323, SPSA(100)),
       StNewVQE(324, "qi", "", "omitted", None),
       StInvoke(325, "result"),
       StPrintResult(326, "result") >>

CellSPSA ==
    << S(317, "import", [names |-> {"SPSA"}]),
       StSetSeed(319),
       StNewQI(320, "aer_simulator"),
       StNewAnsatz(322),
       StNewOptimizer(323, SPSA(100)),
       StNewVQE(324, "qi", "", "omitted", None),
       StInvoke(325, "result"),
       StPrintResult(326, "result") >>

CellAerPauli ==
    << S(366, "import", [names |-> {"AerPauliExpectation"}]),
       StSetSeed(368),
       StNewQI(369, "aer_simulator"),
       StNewAnsatz(371),
       StNewOptimizer(372, SLSQP(1000)),
       StNewVQE(373, "qi", "", "omitted", AerPauliExpectation),
       StInvoke(375, "result"),
       StPrintResult(376, "result") >>

CellUngrouped ==
    << S(416, "import", [names |-> {"PauliExpectation"}]),
       StSetSeed(418),
       StNewQI(419, "aer_simulator"),
       StNewAnsatz(421),
       StNewOptimizer(422, SPSA(100)),
       StNewVQE(423, "qi", "", "omitted", PauliExpectation(FALSE)),
       StInvoke(425, "result"),
       StPrintResult(426, "result") >>

\* The matrix product state cell: it builds quantum_instance and passes qi
CellMPS ==
    << StSetSeed(479),
       S(481, "import", [names |-> {"QasmSimulator"}]),
       S(482, "new_qi", [tgt |-> "quantum_instance", backend |-> "QasmSimulator",
                         method |-> "matrix_product_state", seeded |-> FALSE,
                         shots |-> IntV(1)]),
       StNewAnsatz(484),
       StNewOptimizer(485, SLSQP(1000)),
       StNewVQE(486, "qi", "", "True", None),
       StInvoke(487, "result"),
       StPrintResult(488, "result") >>

CellVersion ==
    << S(523, "import", [names |-> {"qiskit.tools.jupyter"}]),
       S(524, "magic", [name |-> "qiskit_version_table"]),
       S(525, "magic", [name |-> "qiskit_copyright"]) >>

\* The code cells, in the order of the file
Cells ==
    << CellImports, CellOperator, CellFirstRun, CellWarmStart, CellIncludeCustom,
       CellDefaultExpectation, CellSPSA, CellAerPauli, CellUngrouped, CellMPS,
       CellVersion >>

Notebook ==
    CellImports \o CellOperator \o CellFirstRun \o CellWarmStart
    \o CellIncludeCustom \o CellDefaultExpectation \o CellSPSA
    \o CellAerPauli \o CellUngrouped \o CellMPS \o CellVersion

---------------------------------------------------------------------------
(* Formatting *)

DigitChars == << "0", "1", "2", "3", "4", "5", "6", "7", "8", "9" >>

RECURSIVE Digits(_)
\* str(n) of a natural number, as its characters
Digits(n) ==
    IF n < 10 THEN << DigitChars[n + 1] >>
    ELSE Append(Digits(n \div 10), DigitChars[(n % 10) + 1])

\* format(v, '.3f') of a float: rounded to three decimals, ties to even
Format3f(v) ==
    LET q == v.hi \div 100000
        r == v.hi % 100000
        up == r > 50000 \/ (r = 50000 /\ (v.lo > 0 \/ q % 2 = 1))
        m == IF up THEN q + 1 ELSE q
        f == m % 1000
    IN  (IF v.neg THEN << "-" >> ELSE << >>)
        \o Digits(m \div 1000) \o << "." >>
        \o << DigitChars[(f \div 100) + 1], DigitChars[((f \div 10) % 10) + 1],
              DigitChars[(f % 10) + 1] >>

\* One replacement field of an f-string
Format(v, fmt) == IF fmt = ".3f" THEN Format3f(v) ELSE Digits(v.n)

---------------------------------------------------------------------------
(* The kernel: one statement at a time *)

Names ==
    {"H2_op", "seed", "qi", "quantum_instance", "ansatz", "slsqp", "vqe",
     "result", "result1", "initial_pt", "optimizer_evals", "optimizer_evals1",
     "optimal_value", "optimal_value1"}

\* Faulty variant: a call does not block the kernel
Idle_NonBlocking == TRUE

\* No solver invocation is in progress: a call blocks the kernel until it
\* returns or raises
Idle == call = << >>

Cur == prog[pc]

Running(op) ==
    /\ status = "running"
    /\ Idle
    /\ pc <= Len(prog)
    /\ Cur.op = op

Bind(name, v) == env' = [env EXCEPT ![name] = v]

\* from ... import ...
ExecImport ==
    /\ Running("import")
    /\ imported' = imported \cup Cur.p.names
    /\ pc' = pc + 1
    /\ UNCHANGED <<prog, status, env, rseed, heap, call, calls, out>>

\* H2_op = (...) + (...) + ...
ExecOperator ==
    /\ Running("operator")
    /\ Bind(Cur.p.tgt, H2_op)
    /\ pc' = pc + 1
    /\ UNCHANGED <<prog, status, imported, rseed, heap, call, calls, out>>

\* seed = 50
ExecAssign ==
    /\ Running("assign")
    /\ Bind(Cur.p.tgt, Cur.p.val)
    /\ pc' = pc + 1
    /\ UNCHANGED <<prog, status, imported, rseed, heap, call, calls, out>>

\* algorithm_globals.random_seed = seed
ExecSetSeed ==
    /\ Running("set_seed")
    /\ rseed' = env[Cur.p.src]
    /\ pc' = pc + 1
    /\ UNCHANGED <<prog, status, env, imported, heap, call, calls, out>>

\* qi = QuantumInstance(...)
ExecNewQI ==
    /\ Running("new_qi")
    /\ Bind(Cur.p.tgt,
            QuantumInstance(Cur.p.backend, Cur.p.method,
                            IF Cur.p.seeded THEN env["seed"] ELSE None,
                            IF Cur.p.seeded THEN env["seed"] ELSE None,
                            Cur.p.shots))
    /\ pc' = pc + 1
    /\ UNCHANGED <<prog, status, imported, rseed, heap, call, calls, out>>

\* ansatz = TwoLocal(rotation_blocks='ry', entanglement_blocks='cz')
ExecNewAnsatz ==
    /\ Running("new_ansatz")
    /\ Bind(Cur.p.tgt, TwoLocal(Cur.p.rotation_blocks, Cur.p.entanglement_blocks))
    /\ pc' = pc + 1
    /\ UNCHANGED <<prog, status, imported, rseed, heap, call, calls, out>>

\* slsqp = SLSQP(maxiter=1000), slsqp = SPSA(maxiter=100)
ExecNewOptimizer ==
    /\ Running("new_optimizer")
    /\ Bind(Cur.p.tgt, Cur.p.optimizer)
    /\ pc' = pc + 1
    /\ UNCHANGED <<prog, status, imported, rseed, heap, call, calls, out>>

\* vqe = VQE(ansatz, optimizer=slsqp, quantum_instance=..., ...)
ExecNewVQE ==
    /\ Running("new_vqe")
    /\ Bind(Cur.p.tgt,
            VQE(env[Cur.p.ansatz], env[Cur.p.optimizer],
                IF Cur.p.initial_point = "" THEN None ELSE env[Cur.p.initial_point],
                env[Cur.p.quantum_instance],
                IF Cur.p.include_custom = "omitted" THEN default_include_custom
                ELSE Cur.p.include_custom = "True",
                Cur.p.expectation))
    /\ pc' = pc + 1
    /\ UNCHANGED <<prog, status, imported, rseed, heap, call, calls, out>>

\* The configuration a call runs with
config_of(c) ==
    [operator |-> c.operator, ansatz |-> c.vqe.ansatz,
     optimizer |-> c.vqe.optimizer, quantum_instance |-> c.vqe.quantum_instance,
     expectation |-> c.expectation, start |-> c.start]

\* result = vqe.compute_minimum_eigenvalue(operator=H2_op): the call begins
SolverCall ==
    /\ Running("invoke")
    /\ LET vqe == env[Cur.p.vqe]
           c == [line |-> Cur.line, tgt |-> Cur.p.tgt, n |-> Len(calls) + 1,
                 vqe |-> vqe, operator |-> env[Cur.p.operator],
                 expectation |-> expectation_of(vqe),
                 factory |-> uses_factory(vqe),
                 start |-> choose_initial_point(vqe, rseed), evals |-> 0]
       IN  /\ call' = Append(call, c)
           /\ calls' = Append(calls, [line |-> c.line, vqe |-> vqe,
                                      operator |-> c.operator,
                                      expectation |-> c.expectation,
                                      sets |-> measured_sets(c.expectation,
                                                             c.operator),
                                      factory |-> c.factory, start |-> c.start,
                                      seed |-> rseed, at |-> pc, evals |-> 0,
                                      outcome |-> "running", result |-> 0])
    /\ UNCHANGED <<prog, pc, status, env, imported, rseed, heap, out>>

\* The number of cost function evaluations the output cell of this run
\* recorded; a run the notebook has no record of may take 1..MaxEvals
evals_of(c) ==
    IF outcome(config_of(c)).recorded
    THEN outcome(config_of(c)).cost_function_evals.n
    ELSE MaxEvals

\* Faulty variant: the optimization loop never ends
loop_ended_Never(c) == FALSE

\* The optimization loop of the call has ended: it has made the evaluations
\* its record reports (at least one, where there is no record)
loop_ended(c) ==
    IF outcome(config_of(c)).recorded
    THEN c.evals = evals_of(c)
    ELSE c.evals >= 1

\* One evaluation of the cost function (the energy at the optimizer's next
\* point, bound to the ansatz's parameters) inside the call in progress
CostEvaluation ==
    /\ status = "running"
    /\ call # << >>
    /\ LET c == call[Len(call)] IN
        /\ initial_point_matches(c.vqe)
        /\ c.evals < evals_of(c)
        /\ call' = [call EXCEPT ![Len(call)].evals = @ + 1]
    /\ UNCHANGED <<prog, pc, status, env, imported, rseed, heap, calls, out>>

\* The record with its wall-clock time
with_time(r, time) ==
    [f \in DOMAIN r \cup {"optimizer_time"} |->
        IF f = "optimizer_time" THEN time ELSE r[f]]

\* Faulty variant: the solver writes its result into the record the target name is
\* bound to, when it is bound to one
SolverReturn_InPlace ==
    /\ status = "running"
    /\ call # << >>
    /\ LET c == call[Len(call)]
           id == IF env[c.tgt].t = "ref" THEN env[c.tgt].id ELSE Len(heap) + 1
       IN
        /\ initial_point_matches(c.vqe)
        /\ loop_ended(c)
        /\ \E time \in 1..MaxTime :
              heap' = IF id <= Len(heap)
                      THEN [heap EXCEPT ![id] = with_time(outcome(config_of(c)), time)]
                      ELSE Append(heap, with_time(outcome(config_of(c)), time))
        /\ Bind(c.tgt, Ref(id))
        /\ calls' = [calls EXCEPT ![c.n].outcome = "returned",
                                  ![c.n].evals = c.evals,
                                  ![c.n].result = id]
    /\ call' = SubSeq(call, 1, Len(call) - 1)
    /\ pc' = pc + 1
    /\ UNCHANGED <<prog, status, imported, rseed, out>>

\* Faulty variant: the seed does not fix the simulation, a run may return
\* another eigenvalue than the one recorded
SolverReturn_Unseeded ==
    /\ status = "running"
    /\ call # << >>
    /\ LET c == call[Len(call)] IN
        /\ initial_point_matches(c.vqe)
        /\ loop_ended(c)
        /\ \E time \in 1..MaxTime :
           \E r \in { outcome(config_of(c)),
                      [outcome(config_of(c)) EXCEPT !.eigenvalue = Fx(TRUE, 0, 0)] } :
              heap' = Append(heap, with_time(r, time))
        /\ Bind(c.tgt, Ref(Len(heap) + 1))
        /\ calls' = [calls EXCEPT ![c.n].outcome = "returned",
                                  ![c.n].evals = c.evals,
                                  ![c.n].result = Len(heap) + 1]
    /\ call' = SubSeq(call, 1, Len(call) - 1)
    /\ pc' = pc + 1
    /\ UNCHANGED <<prog, status, imported, rseed, out>>

\* compute_minimum_eigenvalue returns: a new result record is bound
SolverReturn ==
    /\ status = "running"
    /\ call # << >>
    /\ LET c == call[Len(call)] IN
        /\ initial_point_matches(c.vqe)
        /\ loop_ended(c)
        /\ \E time \in 1..MaxTime :
              heap' = Append(heap, with_time(outcome(config_of(c)), time))
        /\ Bind(c.tgt, Ref(Len(heap) + 1))
        /\ calls' = [calls EXCEPT ![c.n].outcome = "returned",
                                  ![c.n].evals = c.evals,
                                  ![c.n].result = Len(heap) + 1]
    /\ call' = SubSeq(call, 1, Len(call) - 1)
    /\ pc' = pc + 1
    /\ UNCHANGED <<prog, status, imported, rseed, out>>

\* Faulty variant: the exception is swallowed and the cell goes on
SolverRaise_Swallowed ==
    /\ status = "running"
    /\ call # << >>
    /\ LET c == call[Len(call)] IN
        calls' = [calls EXCEPT ![c.n].outcome =
                     IF initial_point_matches(c.vqe) THEN "raised" ELSE "ValueError"]
    /\ call' = << >>
    /\ pc' = pc + 1
    /\ UNCHANGED <<prog, status, env, imported, rseed, heap, out>>

\* compute_minimum_eigenvalue raises (a mismatched initial point, or any
\* failure of the library or backend): nothing catches it, the run ends
SolverRaise ==
    /\ status = "running"
    /\ call # << >>
    /\ LET c == call[Len(call)] IN
        calls' = [calls EXCEPT ![c.n].outcome =
                     IF initial_point_matches(c.vqe) THEN "raised" ELSE "ValueError"]
    /\ call' = << >>
    /\ status' = "error"
    /\ UNCHANGED <<prog, pc, env, imported, rseed, heap, out>>

\* x = result.field
ExecGetAttr ==
    /\ Running("getattr")
    /\ Bind(Cur.p.tgt, heap[env[Cur.p.src].id][Cur.p.field])
    /\ pc' = pc + 1
    /\ UNCHANGED <<prog, status, imported, rseed, heap, call, calls, out>>

\* print(result)
ExecPrintResult ==
    /\ Running("print_result")
    /\ out' = Append(out, [line |-> Cur.line, kind |-> "result",
                           v |-> heap[env[Cur.p.src].id]])
    /\ pc' = pc + 1
    /\ UNCHANGED <<prog, status, env, imported, rseed, heap, call, calls>>

\* print()
ExecPrintBlank ==
    /\ Running("print_blank")
    /\ out' = Append(out, [line |-> Cur.line, kind |-> "blank", v |-> << >>])
    /\ pc' = pc + 1
    /\ UNCHANGED <<prog, status, env, imported, rseed, heap, call, calls>>

\* print(f'... {a} ... {b} ...')
ExecPrintF ==
    /\ Running("print_f")
    /\ out' = Append(out, [line |-> Cur.line, kind |-> "text",
                           v |-> [i \in 1..Len(Cur.p.parts) |->
                                    Format(env[Cur.p.parts[i].name],
                                           Cur.p.parts[i].fmt)]])
    /\ pc' = pc + 1
    /\ UNCHANGED <<prog, status, env, imported, rseed, heap, call, calls>>

\* %qiskit_version_table, %qiskit_copyright
ExecMagic ==
    /\ Running("magic")
    /\ out' = Append(out, [line |-> Cur.line, kind |-> "display", v |-> Cur.p.name])
    /\ pc' = pc + 1
    /\ UNCHANGED <<prog, status, env, imported, rseed, heap, call, calls>>

\* The last statement has run
Finish ==
    /\ status = "running"
    /\ Idle
    /\ pc = Len(prog) + 1
    /\ status' = "done"
    /\ UNCHANGED <<prog, pc, env, imported, rseed, heap, call, calls, out>>

---------------------------------------------------------------------------
(* The notebook, run top to bottom in a fresh kernel *)

Init ==
    /\ prog = Notebook
    /\ pc = 1
    /\ status = "running"
    /\ env = [n \in Names |-> Unbound]
    /\ imported = {}
    /\ rseed = None
    /\ heap = << >>
    /\ call = << >>
    /\ calls = << >>
    /\ out = << >>

Next ==
    \/ ExecImport
    \/ ExecOperator
    \/ ExecAssign
    \/ ExecSetSeed
    \/ ExecNewQI
    \/ ExecNewAnsatz
    \/ ExecNewOptimizer
    \/ ExecNewVQE
    \/ SolverCall
    \/ CostEvaluation
    \/ SolverReturn
    \/ SolverRaise
    \/ ExecGetAttr
    \/ ExecPrintResult
    \/ ExecPrintBlank
    \/ ExecPrintF
    \/ ExecMagic
    \/ Finish

Spec == Init /\ [][Next]_vars

\* What the kernel does when nothing fails: the next statement, the next
\* cost evaluation, the return of the call
Step ==
    \/ ExecImport \/ ExecOperator \/ ExecAssign \/ ExecSetSeed \/ ExecNewQI
    \/ ExecNewAnsatz \/ ExecNewOptimizer \/ ExecNewVQE \/ SolverCall
    \/ CostEvaluation \/ SolverReturn \/ ExecGetAttr \/ ExecPrintResult
    \/ ExecPrintBlank \/ ExecPrintF \/ ExecMagic \/ Finish

\* The kernel keeps running the script: a step that can be taken is taken.
\* A failure of the library is possible at every call and never required.
SpecLive == Spec /\ WF_vars(Step)

---------------------------------------------------------------------------
(* One VQE call with arguments drawn from small sets: the statements       *)
(* vqe = VQE(...); result = vqe.compute_minimum_eigenvalue(...);           *)
(* print(result) of any cell, run on every combination of arguments        *)

\* A point of k coordinates
PointOfLen(k) == Arr([i \in 1..k |-> i])

\* Ansatzes of 1..MaxParams parameters, with and without a preferred point
Ansatzes ==
    { [t |-> "ansatz", num_parameters |-> n, preferred_init_points |-> pref,
       parameter_bounds |-> b] :
        n \in 1..MaxParams, pref \in {None, [t |-> "preferred"]},
        b \in {"bounds_a", "bounds_b"} }

\* The ansatz with its preferred point, where it has one: the origin
WithPreferred(a) ==
    IF a.preferred_init_points = None THEN a
    ELSE [a EXCEPT !.preferred_init_points = Arr([i \in 1..a.num_parameters |-> 0])]

VQECalls ==
    { << S(0, "new_vqe", [tgt |-> "vqe", ansatz |-> "ansatz", optimizer |-> "slsqp",
                          quantum_instance |-> "qi", initial_point |-> ip,
                          include_custom |-> ic, expectation |-> ex]),
         StInvoke(0, "result"),
         StPrintResult(0, "result") >> :
        ip \in {"", "initial_pt"}, ic \in {"omitted", "True", "False"},
        ex \in {None, AerPauliExpectation, PauliExpectation(TRUE),
                PauliExpectation(FALSE)} }

InitVQE ==
    /\ prog \in VQECalls
    /\ pc = 1
    /\ status = "running"
    /\ \E a \in Ansatzes, k \in 0..MaxLen,
          backend \in {"statevector_simulator", "aer_simulator"} :
          /\ backend = "statevector_simulator" => prog[1].p.include_custom # "True"
          /\ prog[1].p.initial_point = "" => k = 0
          /\ env = [n \in Names |->
                     CASE n = "H2_op" -> H2_op
                       [] n = "seed" -> IntV(50)
                       [] n = "qi" -> SeededQI(backend)
                       [] n = "ansatz" -> WithPreferred(a)
                       [] n = "slsqp" -> SLSQP(1000)
                       [] n = "initial_pt" -> PointOfLen(k)
                       [] OTHER -> Unbound]
    /\ imported = {}
    /\ rseed = IntV(50)
    /\ heap = << >>
    /\ call = << >>
    /\ calls = << >>
    /\ out = << >>

\* The notebook, and every single VQE call
SpecAll == (Init \/ InitVQE) /\ [][Next]_vars

---------------------------------------------------------------------------
(* One VQE call on an operator drawn from small sets: sums of 1..MaxTerms  *)
(* different two-qubit Paulis built, as H2_op is, from I, X and Z          *)

Operators ==
    { [t |-> "PauliSumOp",
       terms |-> [k \in 1..n |-> [coeff |-> Fx(FALSE, 100000000, 0), pauli |-> ps[k]]]] :
        n \in 1..MaxTerms,
        ps \in { s \in [1..MaxTerms -> {"I", "X", "Z"} \X {"I", "X", "Z"}] :
                   \A i, j \in 1..MaxTerms : i # j => s[i] # s[j] } }

OperatorCalls ==
    { << StNewVQE(0, "qi", "", "omitted", ex), StInvoke(0, "result"),
         StPrintResult(0, "result") >> :
        ex \in {None, PauliExpectation(TRUE), PauliExpectation(FALSE)} }

InitOp ==
    /\ prog \in OperatorCalls
    /\ pc = 1
    /\ status = "running"
    /\ \E op \in Operators :
          env = [n \in Names |->
                   CASE n = "H2_op" -> op
                     [] n = "seed" -> IntV(50)
                     [] n = "qi" -> SeededQI("aer_simulator")
                     [] n = "ansatz" -> TwoLocal("ry", "cz")
                     [] n = "slsqp" -> SPSA(100)
                     [] OTHER -> Unbound]
    /\ imported = {}
    /\ rseed = IntV(50)
    /\ heap = << >>
    /\ call = << >>
    /\ calls = << >>
    /\ out = << >>

\* The notebook, and every single VQE call on every operator
SpecOp == (Init \/ InitOp) /\ [][Next]_vars

---------------------------------------------------------------------------
(* Properties *)

\* The solver invocations that have returned, as indices of calls
Returned == { i \in 1..Len(calls) : calls[i].outcome = "returned" }

\* The solver invocations that ended in an exception
Failed == { i \in 1..Len(calls) : calls[i].outcome \in {"raised", "ValueError"} }

\* The record invocation i returned
ResultOf(i) == heap[calls[i].result]

\* The invocations started by the statement at a line of the notebook
AtLine(line) == { i \in 1..Len(calls) : calls[i].line = line }

\* Two records agree in everything but optimizer_time
SameRecord(r1, r2) ==
    /\ r1.cost_function_evals = r2.cost_function_evals
    /\ r1.eigenvalue = r2.eigenvalue
    /\ r1.optimal_point = r2.optimal_point
    /\ r1.optimal_value = r2.optimal_value
    /\ r1.optimizer_evals = r2.optimizer_evals

\* What the statement at a line printed
Printed(line) == { i \in 1..Len(out) : out[i].line = line }

\* The record the output cell of each print(result) statement shows
OutputAt(line) ==
    CASE line = 100 -> ResultSV
      [] line = 153 -> ResultWarm
      [] line = 221 -> ResultAer
      [] line = 277 -> ResultNoisy
      [] line = 326 -> ResultSPSA
      [] line = 376 -> ResultAer
      [] line = 426 -> ResultUngrouped
      [] line = 488 -> ResultAer

\* The run of the model prints, cell by cell, the records of the output
\* cells (optimizer_time apart)
OutputsAsRecorded ==
    \A k \in 1..Len(out) :
        (out[k].kind = "result" /\ out[k].line # 0) =>
            /\ out[k].v.recorded
            /\ SameRecord(out[k].v, OutputAt(out[k].line))

(* C1: the solver invocation of the 'Quantum Instance and advanced         *)
(* simulation' step (line 487) runs on the quantum instance built in that  *)
(* step from QasmSimulator(method='matrix_product_state'), not on one left *)
(* over from an earlier step.                                              *)
C1_MPSStepRunsOnMPS ==
    \A i \in AtLine(487) :
        /\ calls[i].vqe.quantum_instance = env["quantum_instance"]
        /\ calls[i].vqe.quantum_instance.method = "matrix_product_state"

(* C2: the optimization begins at the supplied initial_point when one is   *)
(* supplied, whatever the ansatz prefers; with initial_point None it       *)
(* begins at the ansatz's preferred point when the ansatz has one, and     *)
(* otherwise at a random point within the ansatz's parameter bounds.       *)
C2_InitialPointChoice ==
    \A i \in 1..Len(calls) :
        LET v == calls[i].vqe
            st == calls[i].start
        IN  /\ v.initial_point # None =>
                 st.src = "initial_point" /\ st.point = v.initial_point
            /\ (v.initial_point = None /\ v.ansatz.preferred_init_points # None) =>
                 st.src = "preferred" /\ st.point = v.ansatz.preferred_init_points
            /\ (v.initial_point = None /\ v.ansatz.preferred_init_points = None) =>
                 st.src = "random" /\ st.within = v.ansatz.parameter_bounds

\* A run began at its supplied point although the ansatz prefers another
C2_Witness ==
    \E i \in Returned :
        /\ calls[i].vqe.initial_point # None
        /\ calls[i].vqe.ansatz.preferred_init_points # None
        /\ calls[i].vqe.ansatz.preferred_init_points # calls[i].vqe.initial_point
        /\ calls[i].start.point = calls[i].vqe.initial_point


\* Invocation j is warm-started from invocation i: its initial_point is the
\* optimal_point i returned, with the same operator, ansatz, optimizer,
\* backend and seed
WarmStarted(i, j) ==
    /\ i < j
    /\ calls[j].vqe.initial_point = ResultOf(i).optimal_point
    /\ calls[j].operator = calls[i].operator
    /\ calls[j].vqe.ansatz = calls[i].vqe.ansatz
    /\ calls[j].vqe.optimizer = calls[i].vqe.optimizer
    /\ calls[j].vqe.quantum_instance = calls[i].vqe.quantum_instance
    /\ calls[j].seed = calls[i].seed

(* C3: a run whose initial_point is the optimal_point of an earlier run    *)
(* with the same operator, ansatz, optimizer, backend and seed returns the *)
(* same eigenvalue and uses no more optimizer evaluations; the notebook    *)
(* prints 9 evaluations with the initial point versus 65 without.          *)
C3_WarmStart ==
    /\ \A i \in Returned : \A j \in Returned :
          WarmStarted(i, j) =>
            /\ ResultOf(j).eigenvalue = ResultOf(i).eigenvalue
            /\ ResultOf(j).optimizer_evals.n <= ResultOf(i).optimizer_evals.n
    /\ \A k \in Printed(156) : out[k].v = << << "9" >>, << "6", "5" >> >>

\* The warm-started run has returned and the comparison is printed
C3_Witness ==
    /\ \E i \in Returned : \E j \in Returned : WarmStarted(i, j)
    /\ Printed(156) # {}

\* The vqe = VQE(...) statement that built the solver of invocation i
BuiltBy(i) == prog[calls[i].at - 1]

(* C4: with no expectation supplied and the Aer aer_simulator as backend,  *)
(* VQE uses AerPauliExpectation if include_custom is True and the regular  *)
(* PauliExpectation if it is False; False is what an omitted include_custom*)
(* means.  So the run of line 219 (include_custom=True) is evaluated with  *)
(* AerPauliExpectation and that of line 272 (omitted) with the grouping    *)
(* PauliExpectation.                                                       *)
C4_DefaultExpectation ==
    /\ \A i \in 1..Len(calls) :
          LET v == calls[i].vqe IN
          (v.expectation = None /\ v.quantum_instance.backend = "aer_simulator") =>
              /\ calls[i].factory
              /\ v.include_custom => calls[i].expectation = AerPauliExpectation
              /\ ~v.include_custom => calls[i].expectation.t = "PauliExpectation"
              /\ (BuiltBy(i).op = "new_vqe" /\ BuiltBy(i).p.include_custom = "omitted")
                    => ~v.include_custom
    /\ \A i \in AtLine(219) : calls[i].expectation = AerPauliExpectation
    /\ \A i \in AtLine(272) : calls[i].expectation = PauliExpectation(TRUE)

\* The runs of lines 219 and 272 have returned: on aer_simulator, without an
\* expectation supplied, the first with include_custom=True
C4_Witness ==
    /\ \E i \in Returned \cap AtLine(219) :
          /\ calls[i].vqe.expectation = None
          /\ calls[i].vqe.quantum_instance.backend = "aer_simulator"
          /\ calls[i].vqe.include_custom
    /\ \E i \in Returned \cap AtLine(272) :
          /\ calls[i].vqe.expectation = None
          /\ calls[i].vqe.quantum_instance.backend = "aer_simulator"
          /\ ~calls[i].vqe.include_custom

(* C5: when an expectation object is passed to VQE the ExpectationFactory  *)
(* is not asked and the object passed is the one used; and the run with an *)
(* explicit AerPauliExpectation (line 375) returns the same record, timing *)
(* apart, as the run with include_custom=True (line 219).                  *)
C5_ExplicitExpectation ==
    /\ \A i \in 1..Len(calls) :
          calls[i].vqe.expectation # None =>
            /\ ~calls[i].factory
            /\ calls[i].expectation = calls[i].vqe.expectation
    /\ \A i \in Returned \cap AtLine(219) : \A j \in Returned \cap AtLine(375) :
          SameRecord(ResultOf(i), ResultOf(j))

\* Both runs have returned, with different optimizer_time
C5_Witness ==
    \E i \in Returned \cap AtLine(219) : \E j \in Returned \cap AtLine(375) :
        /\ calls[j].vqe.expectation = AerPauliExpectation
        /\ ResultOf(i).optimizer_time # ResultOf(j).optimizer_time

\* The supplied initial point of invocation i has another length than the
\* ansatz has parameters
Mismatched(i) ==
    IF calls[i].vqe.initial_point = None THEN FALSE
    ELSE Len(calls[i].vqe.initial_point.v) # num_parameters(calls[i].vqe.ansatz)

(* C6: a solver invocation whose initial_point has another length than the *)
(* ansatz has parameters ends in an error of the library and returns no    *)
(* result record; the initial point the notebook supplies (line 151, the   *)
(* first run's optimal_point, 8 values) has the ansatz's parameter count.  *)
C6_InitialPointLength ==
    /\ \A i \in 1..Len(calls) :
          Mismatched(i) =>
            /\ calls[i].outcome \in {"running", "ValueError"}
            /\ calls[i].result = 0
            /\ calls[i].outcome = "ValueError" =>
                  status = "error" /\ Len(heap) = Cardinality(Returned)
    /\ \A i \in AtLine(152) :
          /\ calls[i].vqe.initial_point = ResultOf(1).optimal_point
          /\ Len(calls[i].vqe.initial_point.v) = 8
          /\ ~Mismatched(i)

\* A call with a mismatched initial point has ended in the library's error
C6_Witness ==
    \E i \in 1..Len(calls) : Mismatched(i) /\ calls[i].outcome = "ValueError"

(* C7: at most one solver invocation is in progress, and while one is in   *)
(* progress the kernel stands at its statement: no later statement has     *)
(* started.                                                                *)
C7_Synchronous ==
    /\ Len(call) <= 1
    /\ call # << >> =>
          /\ status = "running"
          /\ pc <= Len(prog)
          /\ prog[pc].op = "invoke"
          /\ prog[pc].line = call[1].line
          /\ \A k \in 1..Len(out) : out[k].line < call[1].line

\* The second solver invocation of the notebook is in progress
C7_Witness == call # << >> /\ Len(calls) = 2

(* C8: when a solver invocation fails nothing catches it: the failing      *)
(* statement runs once, the failing step changes no variable and prints    *)
(* nothing, and no statement runs after it.                                *)
C8_NoRecovery ==
    /\ [](\A i \in 1..Len(calls) : Cardinality(AtLine(calls[i].line)) = 1)
    /\ [][ Failed' # {} =>
             /\ pc' = pc /\ env' = env /\ out' = out /\ heap' = heap
             /\ Failed # {} => UNCHANGED vars ]_vars

\* The invocation of the default-expectation cell (line 272) has failed
C8_Witness ==
    /\ status = "error"
    /\ \E i \in Failed : calls[i].line = 272
    /\ env["optimal_value"] = Unbound

\* The statements of the program that bind H2_op
BindsOperator ==
    { k \in 1..Len(prog) :
        /\ prog[k].op \in {"operator", "assign", "new_qi", "new_ansatz",
                           "new_optimizer", "new_vqe", "invoke", "getattr"}
        /\ prog[k].p.tgt = "H2_op" }

(* C9: H2_op is built once, as the five-term Pauli sum; once bound it is   *)
(* never rebound or changed, and every solver invocation receives it.      *)
C9_OperatorImmutable ==
    /\ [](Cardinality(BindsOperator) = 1)
    /\ [](\A i \in 1..Len(calls) :
            /\ calls[i].operator = H2_op
            /\ Len(calls[i].operator.terms) = 5)
    /\ [][ env["H2_op"] # Unbound => env'["H2_op"] = env["H2_op"] ]_vars

\* The last solver invocation (line 487) has received the operator
C9_Witness ==
    \E i \in Returned \cap AtLine(487) : calls[i].operator = env["H2_op"]

(* C10: a returned record never changes; optimizer_evals and initial_pt    *)
(* keep the values of the first run (line 99) and optimal_value1 that of   *)
(* the include_custom=True run (line 219); the comparison of line 156      *)
(* prints the evaluations of the runs of lines 152 and 99, and that of     *)
(* line 274 the optimal values of the runs of lines 272 and 219.           *)
C10_Snapshots ==
    /\ [][ \A i \in 1..Len(heap) : Len(heap') >= i /\ heap'[i] = heap[i] ]_vars
    /\ [](env["optimizer_evals"] # Unbound =>
            \A i \in AtLine(99) : env["optimizer_evals"] = ResultOf(i).optimizer_evals)
    /\ [](env["initial_pt"] # Unbound =>
            \A i \in AtLine(99) : env["initial_pt"] = ResultOf(i).optimal_point)
    /\ [](env["optimal_value1"] # Unbound =>
            \A i \in AtLine(219) : env["optimal_value1"] = ResultOf(i).optimal_value)
    /\ [](\A k \in Printed(156) : \A i \in AtLine(152) : \A j \in AtLine(99) :
            out[k].v = << Digits(ResultOf(i).optimizer_evals.n),
                          Digits(ResultOf(j).optimizer_evals.n) >>)
    /\ [](\A k \in Printed(274) : \A i \in AtLine(272) : \A j \in AtLine(219) :
            /\ out[k].v = << Format3f(ResultOf(i).optimal_value),
                             Format3f(ResultOf(j).optimal_value) >>
            /\ out[k].v = << << "-", "1", ".", "0", "7", "4" >>,
                             << "-", "1", ".", "8", "5", "7" >> >>)

\* The comparison of line 274 is printed after result was rebound twice
C10_Witness ==
    /\ Printed(274) # {}
    /\ env["result"] # Unbound
    /\ \A i \in AtLine(99) \cup AtLine(219) : env["result"].id # calls[i].result

\* The most iterations an optimizer can have made with so many cost
\* evaluations: SPSA evaluates the cost function twice in an iteration, any
\* other optimizer at least once
IterationsAtMost(optimizer, evals) ==
    IF optimizer.kind = "SPSA" THEN evals \div 2 ELSE evals

\* The statements of the program that invoke the solver
Invocations == { k \in 1..Len(prog) : prog[k].op = "invoke" }

PaulisOf(operator) == { operator.terms[k].pauli : k \in 1..Len(operator.terms) }

\* Two Paulis anticommute: an odd number of positions hold different
\* single-qubit Paulis, neither of them I
Anticommute(p, q) ==
    Cardinality({ k \in 1..Len(p) : p[k] \notin {"I", q[k]} /\ q[k] # "I" }) % 2 = 1

\* The Paulis of set g of invocation i
SetOf(i, g) == { calls[i].sets[g][k] : k \in 1..Len(calls[i].sets[g]) }

(* C12: a grouping PauliExpectation, the default one, measures the Paulis  *)
(* of the operator in sets of commuting Paulis, each Pauli in exactly one  *)
(* set, one circuit per set and so never more circuits than Pauli terms;   *)
(* PauliExpectation(group_paulis=False) runs a circuit for each Pauli      *)
(* term; and an invocation evaluates ungrouped only if that expectation    *)
(* was passed to VQE.  H2_op is measured with 2 circuits grouped (lines    *)
(* 272, 325) and with 5 ungrouped (line 425).                              *)
C12_PauliGrouping ==
    /\ \A i \in 1..Len(calls) :
          LET ex == calls[i].expectation
              terms == calls[i].operator.terms
              sets == calls[i].sets
          IN  /\ (ex.t = "PauliExpectation" /\ calls[i].factory) => ex.group_paulis
              /\ (ex.t = "PauliExpectation" /\ ex.group_paulis) =>
                    /\ \A g \in 1..Len(sets) : sets[g] # << >>
                    /\ \A g \in 1..Len(sets) : \A p, q \in SetOf(i, g) :
                          ~Anticommute(p, q)
                    /\ \A p \in PaulisOf(calls[i].operator) :
                          Cardinality({ g \in 1..Len(sets) : p \in SetOf(i, g) }) = 1
                    /\ \A g \in 1..Len(sets) : SetOf(i, g) \subseteq PaulisOf(calls[i].operator)
                    /\ Len(sets) <= Len(terms)
              /\ (ex.t = "PauliExpectation" /\ ~ex.group_paulis) =>
                    /\ Len(sets) = Len(terms)
                    /\ \A k \in 1..Len(terms) : sets[k] = << terms[k].pauli >>
                    /\ ~calls[i].factory
                    /\ calls[i].vqe.expectation = PauliExpectation(FALSE)
    /\ \A i \in AtLine(272) \cup AtLine(325) :
          calls[i].expectation = PauliExpectation(TRUE) /\ Len(calls[i].sets) = 2
    /\ \A i \in AtLine(425) :
          calls[i].expectation = PauliExpectation(FALSE) /\ Len(calls[i].sets) = 5

\* The notebook's grouped and ungrouped SPSA runs have returned: H2_op
\* was measured in fewer sets than it has terms, one of them of several
\* Paulis, and then Pauli by Pauli
C12_Witness ==
    /\ \E i \in Returned \cap AtLine(325) :
          /\ calls[i].factory
          /\ Len(calls[i].sets) < Len(calls[i].operator.terms)
          /\ \E g \in 1..Len(calls[i].sets) : Len(calls[i].sets[g]) > 1
    /\ \E i \in Returned \cap AtLine(425) :
          Len(calls[i].sets) = Len(calls[i].operator.terms)

\* A drawn operator with anticommuting Paulis was measured grouped, in more
\* than one set
C12_WitnessDrawn ==
    \E i \in Returned :
        /\ calls[i].line = 0
        /\ calls[i].expectation = PauliExpectation(TRUE)
        /\ Len(calls[i].sets) > 1
        /\ Len(calls[i].sets) < Len(calls[i].operator.terms)

\* For the line of every statement, the cell (step) of the notebook it is in
CellOfLine ==
    [line \in { Notebook[k].line : k \in 1..Len(Notebook) } |->
        CHOOSE c \in 1..Len(Cells) : \E j \in 1..Len(Cells[c]) : Cells[c][j].line = line]

CellAt(line) == CellOfLine[line]

\* The statements of the notebook before statement k that bind a name
Bindings(name, k) ==
    { j \in 1..(k - 1) :
        /\ Notebook[j].op \in {"operator", "assign", "new_qi", "new_ansatz",
                               "new_optimizer", "new_vqe", "invoke", "getattr"}
        /\ Notebook[j].p.tgt = name }

\* For every name and statement k of the notebook, the statement that gave
\* the name the value it has at k (0: none), the cells being run in order
LastBindings ==
    [name \in Names |->
        [k \in 1..Len(Notebook) |->
            IF Bindings(name, k) = {} THEN 0
            ELSE CHOOSE j \in Bindings(name, k) : \A x \in Bindings(name, k) : x <= j]]

LastBinding(name, k) == LastBindings[name][k]

\* The statement that built the solver of invocation i
SolverOf(i) == LastBinding(prog[calls[i].at].p.vqe, calls[i].at)

\* The statement that built the object invocation i uses in the role given:
\* "ansatz", "optimizer" or "quantum_instance"
BuilderOf(i, role) == LastBinding(prog[SolverOf(i)].p[role], SolverOf(i))

\* The object was built in the step of invocation i, before the invocation
InOwnStep(i, role) ==
    /\ SolverOf(i) # 0
    /\ BuilderOf(i, role) # 0
    /\ CellAt(prog[BuilderOf(i, role)].line) = CellAt(calls[i].line)

\* The Hamiltonian was built before the invocation, and is what it received
OperatorBuiltBefore(i) ==
    /\ LastBinding(prog[calls[i].at].p.operator, calls[i].at) # 0
    /\ prog[LastBinding(prog[calls[i].at].p.operator, calls[i].at)].op = "operator"
    /\ calls[i].operator = H2_op

\* Everything invocation i uses was built when it began
BuiltBefore(i) ==
    /\ calls[i].vqe.t = "VQE"
    /\ calls[i].vqe.ansatz.t = "TwoLocal"
    /\ calls[i].vqe.optimizer.t = "optimizer"
    /\ calls[i].vqe.quantum_instance.t = "QuantumInstance"

\* The record invocation i returned is printed by its step: once the kernel
\* has left the step, a print(result) of the step has shown the record
PrintedInOwnStep(i) ==
    (pc > Len(prog) \/ CellAt(prog[pc].line) # CellAt(calls[i].line)) =>
        \E k \in 1..Len(out) :
            /\ out[k].kind = "result"
            /\ CellAt(out[k].line) = CellAt(calls[i].line)
            /\ out[k].line > calls[i].line
            /\ out[k].v = ResultOf(i)

\* The workflow order apart from where the backend was selected
OrderApartFromBackend ==
    /\ \A i \in 1..Len(calls) :
          /\ OperatorBuiltBefore(i)
          /\ BuiltBefore(i)
          /\ InOwnStep(i, "ansatz")
          /\ InOwnStep(i, "optimizer")
    /\ \A i \in Returned : PrintedInOwnStep(i)

(* C13: the Hamiltonian is built before the first solver invocation; every *)
(* invocation is preceded, in its own step, by the construction of its     *)
(* ansatz and of its optimizer and by the selection of the backend it runs *)
(* on (the quantum instance its VQE is given), and followed there by the   *)
(* printing of the record it returned; no invocation begins before an      *)
(* object it uses was built.                                               *)
C13_WorkflowOrder ==
    /\ prog = Notebook
    /\ OrderApartFromBackend
    /\ \A i \in 1..Len(calls) : InOwnStep(i, "quantum_instance")

\* The statements that reset the global seed in the step of invocation i,
\* before the invocation
SeedResets(i) ==
    { j \in 1..(calls[i].at - 1) :
        /\ prog[j].op = "set_seed"
        /\ CellAt(prog[j].line) = CellAt(calls[i].line) }

\* Invocation i runs under the fixed seed: the global seed was reset to 50
\* in its step and the quantum instance in use carries 50 for the
\* transpiler and for the simulator
Seeded(i) ==
    /\ SeedResets(i) # {}
    /\ calls[i].seed = IntV(50)
    /\ calls[i].vqe.quantum_instance.seed_transpiler = IntV(50)
    /\ calls[i].vqe.quantum_instance.seed_simulator = IntV(50)

\* Two invocations have the same operator, ansatz, optimizer, backend and
\* expectation
SameConfiguration(i, j) ==
    /\ calls[i].operator = calls[j].operator
    /\ calls[i].vqe.ansatz = calls[j].vqe.ansatz
    /\ calls[i].vqe.optimizer = calls[j].vqe.optimizer
    /\ calls[i].vqe.quantum_instance = calls[j].vqe.quantum_instance
    /\ calls[i].expectation = calls[j].expectation

C15_EvaluationCounts ==
    \A i \in Returned :
        /\ ResultOf(i).recorded
        /\ ResultOf(i).optimizer_evals = ResultOf(i).cost_function_evals
        /\ ResultOf(i).cost_function_evals = IntV(calls[i].evals)
        /\ ResultOf(i).eigenvalue = ResultOf(i).optimal_value
        /\ calls[i].vqe.optimizer = SPSA(100) =>
              /\ ResultOf(i).optimizer_evals = IntV(200)
              /\ ResultOf(i).cost_function_evals.n = 2 * calls[i].vqe.optimizer.maxiter

\* Both SPSA runs (lines 325 and 425) and an SLSQP run have returned
C15_Witness ==
    /\ \E i \in Returned \cap AtLine(325) : calls[i].vqe.optimizer = SPSA(100)
    /\ \E i \in Returned \cap AtLine(425) : calls[i].vqe.optimizer = SPSA(100)
    /\ \E i \in Returned : calls[i].vqe.optimizer = SLSQP(1000)

=============================================================================
